---------------------------- MODULE Spec2Model ----------------------------
(***************************************************************************)
(* Model of the weblin process supervisor (internal/server), the command   *)
(* dispatcher (cmd), the process/file helpers (pkg/utils) and the config   *)
(* store (config).                                                         *)
(*                                                                         *)
(* The operating system is a table of process slots indexed by PID.  A     *)
(* weblin invocation ("start", "debug" or "stop") occupies a slot and      *)
(* walks through StartServer / StopServer one system call at a time, so    *)
(* that invocations interleave exactly where the code can be pre-empted.   *)
(***************************************************************************)
EXTENDS Naturals, Integers, Sequences, FiniteSets, TLC

VARIABLES
    proc,        \* the process table: PID -> process (program counter, locals, history)
    pidFile,     \* var/weblin.pid
    writer,      \* PID of the daemon that wrote pidFile's contents, 0 if none did
    writerGone,  \* that daemon has terminated
    launched,    \* number of programs the environment has started
    raced,       \* a Start read the PID file inside another Start's race window
    misread,     \* a Start could not read an existing PID file
    Conf,        \* config.Conf
    confFile,    \* conf/weblin.properties
    loadErr,     \* what the last LoadConfig returned: "nil", "open" or "read"
    fresh,       \* confFile is as the last LoadConfig call read it
    reloads,     \* LoadConfig calls that returned nil since confFile last changed
    Log,         \* logger.Log, the SyncLogger
    logFiles,    \* log/weblin.log and log/weblin_json.log: the records written
    issued,      \* the calls of LogInfo/LogWarn/LogError/LogDebug made so far
    caller,      \* a zapcore.EntryCaller handed to the caller encoders
    tag          \* what the two caller encoders appended for caller

vars == <<proc, pidFile, writer, writerGone, launched, raced, misread,
          Conf, confFile, loadErr, fresh, reloads,
          Log, logFiles, issued, caller, tag>>

supVars == <<proc, pidFile, writer, writerGone, launched, raced, misread>>
cfgVars == <<Conf, confFile, loadErr, fresh, reloads>>
logVars == <<Log, logFiles, issued, caller, tag>>

---------------------------------------------------------------------------
(* Bounds *)

\* highest PID the OS hands out; PID 1 is init, PIDs 2..MaxPid are slots
MaxPid == 3
\* number of invocations / unrelated processes the environment launches
MaxLaunch == 3
\* number of lines of a configuration file
MaxLines == 2
\* number of LoadConfig calls counted on one unchanged configuration file
MaxReloads == 2
\* number of characters of a caller's file name
MaxName == 3
\* number of log calls made on one logger
MaxLogs == 3
\* number of FinalizeLogger calls made on one logger
MaxFinalize == 2

Pids == 2..MaxPid

\* highest PID of the process table in which one start invocation is followed
MaxChainPid == 4

ChainPids == 2..MaxChainPid

---------------------------------------------------------------------------
(* Program constants *)

ExitCodeSuccess == 0
ExitCodeFailure == 1
ExitCodeFatal == 2

SIGINT == 2
SIGTERM == 15

InitPid == 1
\* parent PID of an invocation typed at a shell: any PID other than init's
ShellPid == 0

\* a file that does not exist, and a file holding the characters data
NoFile == [exists |-> FALSE, data |-> <<>>]

File(data) == [exists |-> TRUE, data |-> data]
NoRet == [status |-> -1, err |-> "none"]

---------------------------------------------------------------------------
(* strconv.Atoi / fmt "%v" on an int, over sequences of characters *)

Digits == <<"0", "1", "2", "3", "4", "5", "6", "7", "8", "9">>

IsDigit(c) == \E i \in 1..10 : Digits[i] = c

DigitVal(c) == (CHOOSE i \in 1..10 : Digits[i] = c) - 1

RECURSIVE DigitsVal(_)
DigitsVal(s) ==
    IF Len(s) = 0 THEN 0
    ELSE 10 * DigitsVal(SubSeq(s, 1, Len(s) - 1)) + DigitVal(s[Len(s)])

\* strconv.Atoi: optional sign, then one or more decimal digits and nothing
\* else; on a syntax error the value is 0
Atoi(s) ==
    LET signed == Len(s) > 0 /\ s[1] \in {"+", "-"}
        body == IF signed THEN SubSeq(s, 2, Len(s)) ELSE s
        ok == Len(body) > 0 /\ \A i \in 1..Len(body) : IsDigit(body[i])
    IN  IF ~ok THEN [value |-> 0, err |-> TRUE]
        ELSE [value |-> IF signed /\ s[1] = "-" THEN 0 - DigitsVal(body)
                        ELSE DigitsVal(body),
              err |-> FALSE]

RECURSIVE Itoa(_)
\* fmt.Fprintf(file, "%v", n) for a non-negative int
Itoa(n) ==
    IF n < 10 THEN <<Digits[n + 1]>>
    ELSE Itoa(n \div 10) \o <<Digits[(n % 10) + 1]>>

\* a write of data at offset 0 of a file opened without O_APPEND
WriteAt0(content, data) ==
    IF Len(content) > Len(data)
    THEN data \o SubSeq(content, Len(data) + 1, Len(content))
    ELSE data

---------------------------------------------------------------------------
(* config: a line of the file is a sequence of symbols, a symbol being one  *)
(* character or a whole word of letters (a key name)                        *)

KeySize == <<"MaxLogFileSize">>
KeyBackup == <<"MaxLogFileBackup">>
KeyAge == <<"MaxLogFileAge">>
KeyCompress == <<"CompressBackupLogFile">>

IsSpace(c) == c \in {" ", "\t"}

RECURSIVE TrimLeft(_)
TrimLeft(s) ==
    IF Len(s) > 0 /\ IsSpace(s[1]) THEN TrimLeft(Tail(s)) ELSE s

RECURSIVE TrimRight(_)
TrimRight(s) ==
    IF Len(s) > 0 /\ IsSpace(s[Len(s)]) THEN TrimRight(SubSeq(s, 1, Len(s) - 1)) ELSE s

\* strings.TrimSpace
TrimSpace(s) == TrimRight(TrimLeft(s))

\* strings.HasPrefix(line, "#")
HasPrefixHash(s) == Len(s) > 0 /\ s[1] = "#"

\* length of the leading run of non-space symbols
RECURSIVE WordLen(_)
WordLen(s) ==
    IF Len(s) = 0 \/ IsSpace(s[1]) THEN 0 ELSE 1 + WordLen(Tail(s))

\* strings.Fields: the maximal runs of non-space symbols
RECURSIVE Fields(_)
Fields(s) ==
    IF Len(s) = 0 THEN <<>>
    ELSE IF IsSpace(s[1]) THEN Fields(Tail(s))
    ELSE LET n == WordLen(s)
         IN  <<SubSeq(s, 1, n)>> \o Fields(SubSeq(s, n + 1, Len(s)))

\* strings.ToLower
LowerChar(c) ==
    IF c = "N" THEN "n" ELSE IF c = "O" THEN "o" ELSE IF c = "Y" THEN "y" ELSE c

ToLower(s) == [i \in 1..Len(s) |-> LowerChar(s[i])]

\* config[key] = value
MapPut(m, k, v) == [x \in (DOMAIN m) \cup {k} |-> IF x = k THEN v ELSE m[x]]

EmptyMap == [x \in {} |-> <<>>]

\* parseConfig: the scanner loop
RECURSIVE parseLines(_, _)
parseLines(lines, config) ==
    IF Len(lines) = 0 THEN config
    ELSE LET line == TrimSpace(Head(lines))
             parts == Fields(line)
         IN  IF Len(line) = 0 \/ HasPrefixHash(line) THEN parseLines(Tail(lines), config)
             ELSE IF Len(parts) # 2 THEN parseLines(Tail(lines), config)
             ELSE parseLines(Tail(lines), MapPut(config, parts[1], parts[2]))

\* parseConfig: os.Open fails on a missing file, scanner.Err() on a read error
parseConfig(file, io) ==
    IF ~file.exists THEN [config |-> EmptyMap, err |-> "open"]
    ELSE IF io # "ok" THEN [config |-> EmptyMap, err |-> "read"]
    ELSE [config |-> parseLines(file.data, EmptyMap), err |-> "nil"]

DefaultConf ==
    [MaxLogFileSize |-> 100, MaxLogFileBackup |-> 10, MaxLogFileAge |-> 90,
     CompBakLogFile |-> TRUE]

\* a LoadConfig that stores any value that converts
Accepts_noRange(a, lo, hi) == ~a.err

\* LoadConfig: if err != nil && value >= lo && value <= hi
Accepts(a, lo, hi) == a.err /\ a.value >= lo /\ a.value <= hi

\* LoadConfig: one numeric key
LoadNumber(config, key, old, lo, hi) ==
    IF key \in DOMAIN config
    THEN LET a == Atoi(config[key])
         IN  IF Accepts(a, lo, hi) THEN a.value ELSE old
    ELSE old

\* a LoadConfig that flips the flag on "no" instead of clearing it
LoadCompress_flip(config, old) ==
    IF KeyCompress \in DOMAIN config
    THEN IF ToLower(config[KeyCompress]) = <<"n", "o">> THEN ~old ELSE old
    ELSE old

\* LoadConfig: the CompressBackupLogFile key
LoadCompress(config, old) ==
    IF KeyCompress \in DOMAIN config
    THEN IF ToLower(config[KeyCompress]) = <<"n", "o">> THEN FALSE ELSE old
    ELSE old

\* a LoadConfig that clears the settings when the file cannot be parsed
LoadConfig_clearOnError(conf, file, io) ==
    LET r == parseConfig(file, io)
    IN  IF r.err # "nil"
        THEN [conf |-> [MaxLogFileSize |-> 0, MaxLogFileBackup |-> 0,
                        MaxLogFileAge |-> 0, CompBakLogFile |-> FALSE],
              err |-> r.err]
        ELSE [conf |-> conf, err |-> "nil"]

LoadConfig(conf, file, io) ==
    LET r == parseConfig(file, io)
    IN  IF r.err # "nil" THEN [conf |-> conf, err |-> r.err]
        ELSE [conf |->
                [MaxLogFileSize |-> LoadNumber(r.config, KeySize, conf.MaxLogFileSize, 1, 1000),
                 MaxLogFileBackup |-> LoadNumber(r.config, KeyBackup, conf.MaxLogFileBackup, 1, 100),
                 MaxLogFileAge |-> LoadNumber(r.config, KeyAge, conf.MaxLogFileAge, 1, 365),
                 CompBakLogFile |-> LoadCompress(r.config, conf.CompBakLogFile)],
              err |-> "nil"]

---------------------------------------------------------------------------
(* Logger: caller annotation, the two cores and the two rotating sinks *)

\* strings.LastIndex(s, c) for a one-character c: the 0-based index of the
\* last c in s, or -1
RECURSIVE LastIndexFrom(_, _, _)
LastIndexFrom(s, c, i) ==
    IF i = 0 THEN -1
    ELSE IF s[i] = c THEN i - 1
    ELSE LastIndexFrom(s, c, i - 1)

\* strings.Index in the place of strings.LastIndex
RECURSIVE IndexFrom(_, _, _)
IndexFrom(s, c, i) ==
    IF i > Len(s) THEN -1
    ELSE IF s[i] = c THEN i - 1
    ELSE IndexFrom(s, c, i + 1)

LastIndex_first(s, c) == IndexFrom(s, c, 1)

LastIndex(s, c) == LastIndexFrom(s, c, Len(s))

\* the Go slice s[i:] for a 0-based i
SliceFrom(s, i) == SubSeq(s, i + 1, Len(s))

putSquareBracketsOnCaller(isConsole, format) ==
    IF isConsole THEN <<"[">> \o format \o <<"]">> ELSE format

Undefined == <<"u", "n", "d", "e", "f", "i", "n", "e", "d">>

\* zapcore.EntryCaller.FullPath: "undefined", or File:Line
FullPath(c) ==
    IF ~c.Defined THEN Undefined ELSE c.File \o <<":">> \o Itoa(c.Line)

\* the function wrapShortCallerEncoder(isConsole) returns, as the string it
\* appends for caller c
wrapShortCallerEncoder(isConsole, c) ==
    IF ~c.Defined
    THEN putSquareBracketsOnCaller(isConsole, Undefined)
    ELSE LET fileIdx == LastIndex(c.File, "/")
             funcIdx == LastIndex(c.Function, ".")
         IN  IF fileIdx = -1
             THEN putSquareBracketsOnCaller(isConsole,
                      FullPath(c) \o <<"-">> \o c.Function \o <<"(", ")">>)
             ELSE IF funcIdx = -1
             THEN putSquareBracketsOnCaller(isConsole,
                      FullPath(c) \o <<"-">> \o c.Function \o <<"(", ")">>)
             ELSE putSquareBracketsOnCaller(isConsole,
                      SliceFrom(c.File, fileIdx + 1) \o <<":">> \o Itoa(c.Line)
                      \o <<"-">> \o SliceFrom(c.Function, funcIdx + 1) \o <<"(", ")">>)

\* zapcore levels
DebugLevel == -1
InfoLevel == 0
WarnLevel == 1
ErrorLevel == 2

\* zapcore.Level.CapitalString
CapitalString(l) ==
    CASE l = DebugLevel -> "DEBUG"
      [] l = InfoLevel -> "INFO"
      [] l = WarnLevel -> "WARN"
      [] l = ErrorLevel -> "ERROR"

\* zapcore.NewCore(encoder, writer, zapcore.InfoLevel), for both cores
CoreLevel == InfoLevel

\* zapcore.LevelEnabler of a core
Enabled(l) == l >= CoreLevel

\* the record the console encoder renders: capitalLevelEncoder, the caller
\* encoder made by wrapShortCallerEncoder(true)
ConsoleRecord(l, c) ==
    [level |-> <<"[", CapitalString(l), "]">>,
     caller |-> wrapShortCallerEncoder(TRUE, c)]

\* the record the JSON encoder renders: zapcore.CapitalLevelEncoder, the
\* caller encoder made by wrapShortCallerEncoder(false)
JsonRecord(l, c) ==
    [level |-> <<CapitalString(l)>>,
     caller |-> wrapShortCallerEncoder(FALSE, c)]

\* an EntryCaller that zap could not fill in
NoCaller == [Defined |-> FALSE, File |-> <<>>, Line |-> 0, Function |-> <<>>]

\* the caller zap finds for a log call made by StartServer
ServerCaller ==
    [Defined |-> TRUE, File |-> <<"/", "f">>, Line |-> 42, Function |-> <<".", "F">>]

\* nothing encoded yet
NoTag == [console |-> <<>>, json |-> <<>>, done |-> FALSE]

\* newLumberJackLogger: the rotation settings are read from config.Conf when
\* the lumberjack.Logger is built
newLumberJackLogger(conf) ==
    [MaxSize |-> conf.MaxLogFileSize, MaxBackups |-> conf.MaxLogFileBackup,
     MaxAge |-> conf.MaxLogFileAge, Compress |-> conf.CompBakLogFile]

\* no lumberjack.Logger built yet
NoLumber == [MaxSize |-> 0, MaxBackups |-> 0, MaxAge |-> 0, Compress |-> FALSE]

\* the SyncLogger before InitializeLogger: the three pointers are nil
NilLogger ==
    [zapLogger |-> "nil", consoleFileLogger |-> "nil", jsonFileLogger |-> "nil",
     lumber |-> NoLumber, panicked |-> FALSE, finalized |-> <<>>]

EmptyLogFiles == [console |-> <<>>, json |-> <<>>]

\* an InitializeLogger that builds nothing
InitializeLogger_nothing(log, conf) == log

\* InitializeLogger: two lumberjack loggers (no file opened yet), two cores
\* in a Tee, the zap logger
InitializeLogger(log, conf) ==
    [log EXCEPT !.consoleFileLogger = "idle",
                !.jsonFileLogger = "idle",
                !.lumber = newLumberJackLogger(conf),
                !.zapLogger = "tee"]

\* s.zapLogger.Info/Warn/Error/Debug(message): a nil zapLogger is a nil
\* dereference; otherwise every core whose level lets l through encodes the
\* entry and writes it to its lumberjack logger, which opens its file on
\* the first write
LogWrite(log, files, l, c) ==
    IF log.zapLogger = "nil"
    THEN [log |-> [log EXCEPT !.panicked = TRUE], files |-> files]
    ELSE IF Enabled(l)
    THEN [log |-> [log EXCEPT !.consoleFileLogger = "open",
                              !.jsonFileLogger = "open"],
          files |-> [console |-> Append(files.console, ConsoleRecord(l, c)),
                     json |-> Append(files.json, JsonRecord(l, c))]]
    ELSE [log |-> log, files |-> files]

\* a FinalizeLogger that flushes but leaves both files open
FinalizeLogger_leak(log) == [log EXCEPT !.finalized = @ \o <<"Sync">>]

\* FinalizeLogger: zapLogger.Sync(), consoleFileLogger.Close(),
\* jsonFileLogger.Close(); finalized lists the calls made, in order
FinalizeLogger(log) ==
    IF log.zapLogger = "nil"
    THEN [log EXCEPT !.panicked = TRUE]
    ELSE [log EXCEPT !.finalized = @ \o <<"Sync", "CloseConsole", "CloseJson">>,
                     !.consoleFileLogger = "idle",
                     !.jsonFileLogger = "idle"]

---------------------------------------------------------------------------
(* Process table *)

FreeProc ==
    [kind |-> "free", pc |-> "none", ppid |-> 0,
     pid |-> 0, found |-> FALSE, ret |-> NoRet, exit |-> -1, exitBy |-> "none",
     sigChan |-> <<>>, registered |-> FALSE, notified |-> FALSE, logger |-> "none", log |-> NilLogger,
     runPid |-> 0, conf |-> DefaultConf, loaded |-> "no",
     probed |-> "no", readStale |-> FALSE, aliveAtProbe |-> FALSE, wrote |-> FALSE, spawned |-> 0,
     sent |-> <<>>, delivered |-> 0, logs |-> <<>>, got |-> 0,
     holder |-> "none", hit |-> "none",
     failed |-> "none", killedBy |-> 0]

NewProc(kind, ppid) ==
    [FreeProc EXCEPT !.kind = kind, !.pc = "entry", !.ppid = ppid]

Alive(pr, p) == p \in DOMAIN pr /\ pr[p].kind # "free" /\ pr[p].pc # "exited"

FreePids == {p \in DOMAIN proc : proc[p].kind = "free"}

\* who holds PID t: nobody, a weblin daemon (a start process that has written
\* its own PID, RunConf.Pid, to the PID file) or any other process
Holder(pr, t) ==
    IF ~Alive(pr, t) THEN "none"
    ELSE IF pr[t].kind = "start" /\ pr[t].wrote THEN "daemon"
    ELSE "unrelated"

\* what stays visible of a terminated process until the OS releases its PID:
\* how it ended and what it had done by then
Exited(r, status, by) ==
    [FreeProc EXCEPT !.kind = r.kind, !.pc = "exited", !.exit = status,
                     !.exitBy = by, !.ret = r.ret, !.killedBy = r.killedBy,
                     !.wrote = r.wrote, !.registered = r.registered]

\* process p terminates: its children are re-parented to init
Exit(pr, p, status, by) ==
    [q \in DOMAIN pr |->
        IF q = p THEN Exited(pr[q], status, by)
        ELSE IF pr[q].kind # "free" /\ pr[q].ppid = p
             THEN [pr[q] EXCEPT !.ppid = InitPid]
             ELSE pr[q]]

\* the daemon that wrote the PID file's contents is gone once it exits
GoneAfter(pr) == writerGone \/ (writer \in DOMAIN pr /\ ~Alive(pr, writer))

Return(pr, p, status, err) ==
    [pr EXCEPT ![p].pc = "returned", ![p].ret = [status |-> status, err |-> err]]

---------------------------------------------------------------------------
(* Signals *)

\* a setupSignal that forgets SIGTERM
NotifiedSignals_onlyInt == {SIGINT}

\* setupSignal: signal.Notify(sigChan, SIGINT, SIGTERM)
NotifiedSignals == {SIGINT, SIGTERM}

\* what the Go runtime does with sig in a process: a signal registered with
\* signal.Notify goes to the channel; before registration SIGINT and SIGTERM
\* keep their default action and terminate the process
Disposition(registered, sig) ==
    IF registered /\ sig \in NotifiedSignals THEN "notify" ELSE "default"

\* an unbuffered channel, make(chan os.Signal): no slot at all
SigChanCap_unbuffered == Len(<<>>)

\* setupSignal: make(chan os.Signal, 1)
SigChanCap == 1

\* delivery of sig to the live process t.  signal.Notify never blocks: a
\* signal that finds the one-slot channel full is dropped.
Deliver(pr, t, sig) ==
    IF pr[t].kind = "start" /\ Disposition(pr[t].registered, sig) = "notify"
    THEN IF Len(pr[t].sigChan) < SigChanCap
         THEN [pr EXCEPT ![t].sigChan = Append(@, sig), ![t].notified = TRUE]
         ELSE [pr EXCEPT ![t].notified = TRUE]
    ELSE Exit([pr EXCEPT ![t].killedBy = sig], t, -1, "signal")

---------------------------------------------------------------------------
(* pkg/utils/process *)

\* an IsProcessRun that never finds the process
IsProcessRun_never(pr, pid) == FALSE

\* an IsProcessRun that trusts the PID file without probing
IsProcessRun_always(pr, pid) == TRUE

\* IsProcessRun: os.FindProcess never fails on Linux; Signal(0) succeeds iff
\* a live process holds the PID
IsProcessRun(pr, pid) == Alive(pr, pid)

---------------------------------------------------------------------------
(* cmd: wrapCommandFuncForCobra and Execute *)

wrapCommandFuncForCobra(status, err) ==
    IF status > 1
    THEN [isExitError |-> TRUE, ExitCode |-> status, nil |-> FALSE]
    ELSE [isExitError |-> FALSE, ExitCode |-> 0, nil |-> (err = "nil")]

\* an Execute whose fallback exit status is not 1
Execute_fallback2(e) ==
    IF ~e.nil
    THEN IF e.isExitError THEN e.ExitCode ELSE 2
    ELSE 0

\* the exit status of the process: os.Exit(exitErr.ExitCode), os.Exit(1), or
\* a return from main (status 0)
Execute(e) ==
    IF ~e.nil
    THEN IF e.isExitError THEN e.ExitCode ELSE 1
    ELSE 0

---------------------------------------------------------------------------
(* Environment *)

\* a user or init runs "weblin start|debug|stop"; the OS picks a free PID
Launch ==
    /\ launched < MaxLaunch
    /\ \E p \in FreePids, kind \in {"start", "stop"}, pp \in {ShellPid, InitPid} :
          /\ kind = "stop" => pp = ShellPid
          /\ proc' = [proc EXCEPT ![p] = NewProc(kind, pp)]
    /\ launched' = launched + 1
    /\ writerGone' = GoneAfter(proc')
    /\ UNCHANGED <<pidFile, writer, raced, misread, cfgVars, logVars>>

\* an unrelated program starts and is given a free PID
OtherSpawn ==
    /\ launched < MaxLaunch
    /\ \E p \in FreePids :
          proc' = [proc EXCEPT ![p] = [FreeProc EXCEPT !.kind = "other", !.pc = "run"]]
    /\ launched' = launched + 1
    /\ writerGone' = GoneAfter(proc')
    /\ UNCHANGED <<pidFile, writer, raced, misread, cfgVars, logVars>>

OtherExit(p) ==
    /\ proc[p].kind = "other" /\ proc[p].pc = "run"
    /\ proc' = Exit(proc, p, 0, "osexit")
    /\ writerGone' = GoneAfter(proc')
    /\ UNCHANGED <<pidFile, writer, launched, raced, misread, cfgVars, logVars>>

\* SIGINT (Ctrl-C) or SIGTERM (kill) sent to a weblin start process from outside
EnvSignal(t, sig) ==
    /\ proc[t].kind = "start" /\ Alive(proc, t)
    /\ proc' = Deliver(proc, t, sig)
    /\ writerGone' = GoneAfter(proc')
    /\ UNCHANGED <<pidFile, writer, launched, raced, misread, cfgVars, logVars>>

\* a weblin start process crashes (SIGKILL, fault): no handler runs
Crash(t) ==
    /\ proc[t].kind = "start" /\ Alive(proc, t)
    /\ proc' = Exit(proc, t, -1, "kill")
    /\ writerGone' = GoneAfter(proc')
    /\ UNCHANGED <<pidFile, writer, launched, raced, misread, cfgVars, logVars>>

\* the OS releases the PID of a terminated process
Reap(p) ==
    /\ proc[p].pc = "exited"
    /\ proc' = [proc EXCEPT ![p] = FreeProc]
    /\ writerGone' = GoneAfter(proc')
    /\ UNCHANGED <<pidFile, writer, launched, raced, misread, cfgVars, logVars>>

---------------------------------------------------------------------------
(* internal/server: StartServer, StopServer and their helpers *)

\* an entry check that reports its failure as fatal
EntryFailureCode_fatal == ExitCodeFatal

\* StartServer, StopServer: status returned for a nil command and for a
\* failed ChangeWorkPathToModulePath
EntryFailureCode == ExitCodeFailure

\* StartServer / StopServer up to the isRunning call: nil check of cmd and
\* file.ChangeWorkPathToModulePath
Entry(p) ==
    /\ proc[p].kind \in {"start", "stop"} /\ proc[p].pc = "entry"
    /\ \E cmdNil \in BOOLEAN, chdirOk \in BOOLEAN :
          proc' = IF cmdNil
                  THEN Return([proc EXCEPT ![p].failed = "nilcmd"], p, EntryFailureCode, "error")
                  ELSE IF ~chdirOk
                  THEN Return([proc EXCEPT ![p].failed = "chdir"], p, EntryFailureCode, "error")
                  ELSE [proc EXCEPT ![p].pc = "open"]
    /\ writerGone' = GoneAfter(proc')
    /\ UNCHANGED <<pidFile, writer, launched, raced, misread, cfgVars, logVars>>

\* a StartServer that goes on although an instance is running
StartOnIsRunning_goOn(found) == "daemonize"

\* StartServer: if isRunning(&pid) { return ExitCodeSuccess, nil }
StartOnIsRunning(found) == IF found THEN "returned" ELSE "daemonize"

\* a StopServer that signals whatever isRunning says
StopOnIsRunning_always(found) == "send"

\* StopServer: if !isRunning(&pid) { return ExitCodeSuccess, nil }
StopOnIsRunning(found) == IF found THEN "send" ELSE "returned"

\* a start process that has read the PID file in isRunning and has neither
\* returned nor written the PID file yet: the window of the liveness race
InWindow(pr, q) ==
    /\ pr[q].kind = "start"
    /\ pr[q].pc \in {"probe", "daemonize", "openpid", "writepid"}

\* isRunning has returned found to its caller p
Decided(pr, p, found, how) ==
    LET next == IF pr[p].kind = "start" THEN StartOnIsRunning(found)
                ELSE StopOnIsRunning(found)
        pr1 == [pr EXCEPT ![p].found = found, ![p].probed = how, ![p].pc = next]
    IN  IF next = "returned" THEN Return(pr1, p, ExitCodeSuccess, "nil") ELSE pr1

\* isRunning: os.Open, io.ReadAll, strconv.Atoi
IsRunningRead(p) ==
    /\ proc[p].kind \in {"start", "stop"} /\ proc[p].pc = "open"
    /\ \E io \in {"ok", "ioerror"} :
          IF ~pidFile.exists
          THEN proc' = Decided(proc, p, FALSE, "nofile")
          ELSE IF io = "ioerror"
          THEN proc' = Decided(proc, p, FALSE, "ioerror")
          ELSE LET a == Atoi(pidFile.data)
                   pr1 == [proc EXCEPT ![p].pid = a.value]
               IN  IF a.err
                   THEN proc' = Decided(pr1, p, FALSE, "atoi")
                   ELSE proc' = [pr1 EXCEPT ![p].pc = "probe",
                                            ![p].readStale = writerGone]
    /\ raced' = (raced \/ (proc[p].kind = "start"
                           /\ \E q \in DOMAIN proc \ {p} : InWindow(proc, q)))
    /\ misread' = (misread \/ (proc[p].kind = "start" /\ proc'[p].probed = "ioerror"))
    /\ writerGone' = GoneAfter(proc')
    /\ UNCHANGED <<pidFile, writer, launched, cfgVars, logVars>>

\* isRunning: return process.IsProcessRun(*pid)
IsRunningProbe(p) ==
    /\ proc[p].kind \in {"start", "stop"} /\ proc[p].pc = "probe"
    /\ LET found == IsProcessRun(proc, proc[p].pid)
           pr1 == [proc EXCEPT ![p].aliveAtProbe = Alive(proc, proc[p].pid),
                               ![p].holder = Holder(proc, proc[p].pid)]
       IN  proc' = Decided(pr1, p, found, IF found THEN "live" ELSE "dead")
    /\ writerGone' = GoneAfter(proc')
    /\ UNCHANGED <<pidFile, writer, launched, raced, misread, cfgVars, logVars>>

\* status with which StartServer returns when DaemonizeProcess or
\* WriteDataToTextFile returns an error
StartFailureCode == ExitCodeFailure

\* a parent that returns nil to StartServer after cmd.Start()
AfterStart_goOn == "openpid"

\* DaemonizeProcess: what the parent does after a successful cmd.Start():
\* os.Exit(0)
AfterStart == "exit0"

\* process.DaemonizeProcess up to cmd.Start()
DaemonizeProcess(p) ==
    /\ proc[p].kind = "start" /\ proc[p].pc = "daemonize"
    /\ IF proc[p].ppid # InitPid
       THEN \E out \in {"ok", "fail"} :
               IF out = "ok"
               THEN \E c \in FreePids :
                       proc' = [proc EXCEPT
                                  ![p].pc = AfterStart,
                                  ![p].spawned = @ + 1,
                                  ![c] = NewProc("start", p)]
               ELSE proc' = Return([proc EXCEPT ![p].failed = "daemonize"], p,
                                   StartFailureCode, "error")
       ELSE proc' = [proc EXCEPT ![p].pc = "openpid"]
    /\ writerGone' = GoneAfter(proc')
    /\ UNCHANGED <<pidFile, writer, launched, raced, misread, cfgVars, logVars>>

\* a parent that exits with a failure status
ParentExitCode_one == ExitCodeFailure

\* DaemonizeProcess: the status of os.Exit(0)
ParentExitCode == 0

\* process.DaemonizeProcess: os.Exit(0) in the parent
DaemonizeExit(p) ==
    /\ proc[p].kind = "start" /\ proc[p].pc = "exit0"
    /\ proc' = Exit(proc, p, ParentExitCode, "osexit")
    /\ writerGone' = GoneAfter(proc')
    /\ UNCHANGED <<pidFile, writer, launched, raced, misread, cfgVars, logVars>>

\* config.RunConf.Pid = os.Getpid(); WriteDataToTextFile: os.MkdirAll and
\* os.OpenFile(O_CREATE|O_WRONLY|O_TRUNC)
OpenPidFile(p) ==
    /\ proc[p].kind = "start" /\ proc[p].pc = "openpid"
    /\ \E ok \in BOOLEAN :
          IF ok
          THEN /\ proc' = [proc EXCEPT ![p].runPid = p, ![p].pc = "writepid"]
               /\ pidFile' = File(<<>>)
               /\ writer' = 0
               /\ writerGone' = FALSE
          ELSE /\ proc' = Return([proc EXCEPT ![p].runPid = p, ![p].failed = "write"], p,
                                 StartFailureCode, "error")
               /\ writerGone' = GoneAfter(proc')
               /\ UNCHANGED <<pidFile, writer>>
    /\ UNCHANGED <<launched, raced, misread, cfgVars, logVars>>

\* WriteDataToTextFile: fmt.Fprintf(file, "%v", data)
WritePidFile(p) ==
    /\ proc[p].kind = "start" /\ proc[p].pc = "writepid"
    /\ \E ok \in BOOLEAN :
          IF ok
          THEN /\ proc' = [proc EXCEPT ![p].wrote = TRUE, ![p].pc = "setupSignal"]
               /\ pidFile' = File(WriteAt0(pidFile.data, Itoa(proc[p].runPid)))
               /\ writer' = p
               /\ writerGone' = FALSE
          ELSE /\ proc' = Return([proc EXCEPT ![p].failed = "write"], p,
                                 StartFailureCode, "error")
               /\ writerGone' = GoneAfter(proc')
               /\ UNCHANGED <<pidFile, writer>>
    /\ UNCHANGED <<launched, raced, misread, cfgVars, logVars>>

\* StartServer: setupSignal (the debug-mode check before it only decides
\* whether os.Stdout and os.Stderr are dropped)
SetupSignal(p) ==
    /\ proc[p].kind = "start" /\ proc[p].pc = "setupSignal"
    /\ proc' = [proc EXCEPT ![p].registered = TRUE,
                            ![p].pc = "initialization"]
    /\ writerGone' = GoneAfter(proc')
    /\ UNCHANGED <<pidFile, writer, launched, raced, misread, cfgVars, logVars>>

\* initialization: config.LoadConfig (error ignored), logger.InitializeLogger
Initialization(p) ==
    /\ proc[p].kind = "start" /\ proc[p].pc = "initialization"
    /\ \E io \in {"ok", "readerror"} :
          LET r == LoadConfig(proc[p].conf, confFile, io)
          IN  proc' = [proc EXCEPT ![p].conf = r.conf,
                                   ![p].loaded = r.err,
                                   ![p].logger = "open",
                                   ![p].log = InitializeLogger(@, r.conf),
                                   ![p].pc = "logStart"]
    /\ writerGone' = GoneAfter(proc')
    /\ UNCHANGED <<pidFile, writer, launched, raced, misread, cfgVars, logVars>>

\* logger.Log.LogInfo("Start %s (pid:%d, mode:%s)", ...)
LogStart(p) ==
    /\ proc[p].kind = "start" /\ proc[p].pc = "logStart"
    /\ proc' = [proc EXCEPT ![p].logs = Append(@, "Start"),
                            ![p].log = LogWrite(@, EmptyLogFiles, InfoLevel, ServerCaller).log,
                            ![p].pc = "wait"]
    /\ writerGone' = GoneAfter(proc')
    /\ UNCHANGED <<pidFile, writer, launched, raced, misread, cfgVars, logVars>>

\* sig := <-sigChan
WaitSignal(p) ==
    /\ proc[p].kind = "start" /\ proc[p].pc = "wait"
    /\ Len(proc[p].sigChan) > 0
    /\ proc' = [proc EXCEPT ![p].got = Head(proc[p].sigChan),
                            ![p].sigChan = Tail(@),
                            ![p].pc = "logSig"]
    /\ writerGone' = GoneAfter(proc')
    /\ UNCHANGED <<pidFile, writer, launched, raced, misread, cfgVars, logVars>>

\* logger.Log.LogInfo("Received %s signal (%d)", ...)
LogSignal(p) ==
    /\ proc[p].kind = "start" /\ proc[p].pc = "logSig"
    /\ proc' = [proc EXCEPT ![p].logs = Append(@, "Received"),
                            ![p].log = LogWrite(@, EmptyLogFiles, InfoLevel, ServerCaller).log,
                            ![p].pc = "finalization"]
    /\ writerGone' = GoneAfter(proc')
    /\ UNCHANGED <<pidFile, writer, launched, raced, misread, cfgVars, logVars>>

\* deferred finalization(): logger.FinalizeLogger; return ExitCodeSuccess, nil
Finalization(p) ==
    /\ proc[p].kind = "start" /\ proc[p].pc = "finalization"
    /\ proc' = Return([proc EXCEPT ![p].logger = "closed",
                                   ![p].log = FinalizeLogger(@)],
                      p, ExitCodeSuccess, "nil")
    /\ writerGone' = GoneAfter(proc')
    /\ UNCHANGED <<pidFile, writer, launched, raced, misread, cfgVars, logVars>>

\* a StopServer that reports a failed SendSignal as fatal
StopFailureCode_fatal == ExitCodeFatal

\* StopServer: status returned when process.SendSignal fails
StopFailureCode == ExitCodeFailure

\* the PID StopServer passes to process.SendSignal
SignalTarget(p) == proc[p].pid

\* StopServer: process.SendSignal(pid, syscall.SIGTERM)
SendSignal(p) ==
    /\ proc[p].kind = "stop" /\ proc[p].pc = "send"
    /\ LET t == SignalTarget(p)
           pr1 == [proc EXCEPT ![p].sent = Append(@, t)]
       IN  IF Alive(proc, t)
           THEN proc' = Deliver(Return([pr1 EXCEPT ![p].delivered = @ + 1,
                                                   ![p].hit = Holder(proc, t)], p,
                                       ExitCodeSuccess, "nil"), t, SIGTERM)
           ELSE proc' = Return([pr1 EXCEPT ![p].failed = "signal"], p,
                               StopFailureCode, "error")
    /\ writerGone' = GoneAfter(proc')
    /\ UNCHANGED <<pidFile, writer, launched, raced, misread, cfgVars, logVars>>

\* the cobra wrapper and Execute turn the returned pair into the exit status
Dispatch(p) ==
    /\ proc[p].kind \in {"start", "stop"} /\ proc[p].pc = "returned"
    /\ proc' = Exit(proc, p,
                    Execute(wrapCommandFuncForCobra(proc[p].ret.status, proc[p].ret.err)),
                    "dispatch")
    /\ writerGone' = GoneAfter(proc')
    /\ UNCHANGED <<pidFile, writer, launched, raced, misread, cfgVars, logVars>>

---------------------------------------------------------------------------
(* Supervisor specification *)

\* the PID file before the first start: absent, or left with contents that
\* are not a decimal integer
InitialPidFiles == {NoFile, File(<<"x">>), File(<<"2", "\n">>)}

Init ==
    /\ proc = [p \in Pids |-> FreeProc]
    /\ pidFile \in InitialPidFiles
    /\ writer = 0
    /\ writerGone = FALSE
    /\ launched = 0
    /\ raced = FALSE
    /\ misread = FALSE
    /\ Conf = DefaultConf
    /\ confFile = NoFile
    /\ loadErr = "nil"
    /\ fresh = FALSE
    /\ reloads = 0
    /\ Log = NilLogger
    /\ logFiles = EmptyLogFiles
    /\ issued = <<>>
    /\ caller = NoCaller
    /\ tag = NoTag

Next ==
    \/ Launch
    \/ OtherSpawn
    \/ \E p \in Pids : OtherExit(p)
    \/ \E p \in Pids, sig \in {SIGINT, SIGTERM} : EnvSignal(p, sig)
    \/ \E p \in Pids : Crash(p)
    \/ \E p \in Pids : Reap(p)
    \/ \E p \in Pids : Entry(p)
    \/ \E p \in Pids : IsRunningRead(p)
    \/ \E p \in Pids : IsRunningProbe(p)
    \/ \E p \in Pids : DaemonizeProcess(p)
    \/ \E p \in Pids : DaemonizeExit(p)
    \/ \E p \in Pids : OpenPidFile(p)
    \/ \E p \in Pids : WritePidFile(p)
    \/ \E p \in Pids : SetupSignal(p)
    \/ \E p \in Pids : Initialization(p)
    \/ \E p \in Pids : LogStart(p)
    \/ \E p \in Pids : WaitSignal(p)
    \/ \E p \in Pids : LogSignal(p)
    \/ \E p \in Pids : Finalization(p)
    \/ \E p \in Pids : SendSignal(p)
    \/ \E p \in Pids : Dispatch(p)

Spec == Init /\ [][Next]_vars

---------------------------------------------------------------------------
(* Daemonization specification: one "weblin start" and the processes it
   spawns, in a process table with room for three of them *)

InitChain(file) ==
    /\ proc = [p \in ChainPids |-> FreeProc]
    /\ pidFile = NoFile
    /\ writer = 0
    /\ writerGone = FALSE
    /\ launched = MaxLaunch - 1
    /\ raced = FALSE
    /\ misread = FALSE
    /\ Conf = DefaultConf
    /\ confFile = file
    /\ loadErr = "nil"
    /\ fresh = FALSE
    /\ reloads = 0
    /\ Log = NilLogger
    /\ logFiles = EmptyLogFiles
    /\ issued = <<>>
    /\ caller = NoCaller
    /\ tag = NoTag

\* no conf/weblin.properties
InitDaemonize == InitChain(NoFile)

\* "weblin start" typed at a shell
LaunchStart ==
    /\ Launch
    /\ \E p \in ChainPids :
          /\ proc[p].kind = "free"
          /\ proc'[p].kind = "start" /\ proc'[p].ppid = ShellPid

NextDaemonize ==
    \/ LaunchStart
    \/ \E p \in ChainPids : Reap(p)
    \/ \E p \in ChainPids : Entry(p)
    \/ \E p \in ChainPids : IsRunningRead(p)
    \/ \E p \in ChainPids : DaemonizeProcess(p)
    \/ \E p \in ChainPids : DaemonizeExit(p)
    \/ \E p \in ChainPids : OpenPidFile(p)
    \/ \E p \in ChainPids : WritePidFile(p)
    \/ \E p \in ChainPids : SetupSignal(p)
    \/ \E p \in ChainPids : Initialization(p)
    \/ \E p \in ChainPids : LogStart(p)
    \/ \E p \in ChainPids, sig \in {SIGINT, SIGTERM} : EnvSignal(p, sig)
    \/ \E p \in ChainPids : WaitSignal(p)
    \/ \E p \in ChainPids : LogSignal(p)
    \/ \E p \in ChainPids : Finalization(p)
    \/ \E p \in ChainPids : Dispatch(p)

SpecDaemonize == InitDaemonize /\ [][NextDaemonize]_vars

\* a daemon that can take a step of StartServer after setupSignal
\* eventually takes it: the process is running and nothing but the receive
\* on sigChan blocks it
DaemonFair ==
    \A p \in ChainPids :
        /\ WF_vars(Initialization(p))
        /\ WF_vars(LogStart(p))
        /\ WF_vars(WaitSignal(p))
        /\ WF_vars(LogSignal(p))
        /\ WF_vars(Finalization(p))

SpecShutdown == SpecDaemonize /\ DaemonFair

\* conf/weblin.properties as "weblin start" may find it: missing, or holding
\* a setting that differs from the default
StartConfFiles == {NoFile, File(<<KeyCompress \o <<" ">> \o <<"n", "o">>>>)}

InitStartConf == \E f \in StartConfFiles : InitChain(f)

\* one "weblin start" with either configuration file
SpecStartConf == InitStartConf /\ [][NextDaemonize]_vars

---------------------------------------------------------------------------
(* Configuration store specification: the file is edited and loaded *)

NumericKeys == {KeySize, KeyBackup, KeyAge}

NumericValues ==
    {<<"0">>, <<"1">>, <<"5", "0">>, <<"1", "0", "1">>, <<"3", "6", "6">>,
     <<"1", "0", "0", "0">>, <<"1", "0", "0", "1">>, <<"-", "1">>, <<"+", "5">>,
     <<"5", "x">>}

CompressValues == {<<"n", "o">>, <<"N", "O">>, <<"y", "e", "s">>}

\* lines that parseConfig must skip, and a valid line with padding
OddLines ==
    {<<>>, <<" ">>,
     <<"#", " ">> \o KeySize \o <<" ", "5", "0">>,
     <<" ", "#">> \o KeyAge \o <<" ", "5", "0">>,
     KeyBackup,
     KeySize \o <<" ", "5", "0", " ", "5", "0">>,
     KeySize \o <<"=", "5", "0">>,
     <<" ">> \o KeyAge \o <<"\t", " ", "5", "0", " ">>}

ConfLines ==
    {k \o <<" ">> \o v : k \in NumericKeys, v \in NumericValues}
    \cup {KeyCompress \o <<" ">> \o v : v \in CompressValues}
    \cup OddLines

\* conf/weblin.properties is created empty
EnvCreateConf ==
    /\ ~confFile.exists
    /\ confFile' = File(<<>>)
    /\ fresh' = FALSE
    /\ reloads' = 0
    /\ UNCHANGED <<Conf, loadErr, supVars, logVars>>

\* a line is added to conf/weblin.properties
EnvAppendLine(l) ==
    /\ confFile.exists /\ Len(confFile.data) < MaxLines
    /\ confFile' = File(Append(confFile.data, l))
    /\ fresh' = FALSE
    /\ reloads' = 0
    /\ UNCHANGED <<Conf, loadErr, supVars, logVars>>

\* conf/weblin.properties is removed
EnvRemoveConf ==
    /\ confFile.exists
    /\ confFile' = NoFile
    /\ fresh' = FALSE
    /\ reloads' = 0
    /\ UNCHANGED <<Conf, loadErr, supVars, logVars>>

\* config.LoadConfig(config.ConfFilePath)
LoadConfigCall ==
    /\ \E io \in {"ok", "readerror"} :
          LET r == LoadConfig(Conf, confFile, io)
          IN  /\ Conf' = r.conf
              /\ loadErr' = r.err
              /\ reloads' = IF r.err = "nil" /\ reloads < MaxReloads
                             THEN reloads + 1 ELSE reloads
    /\ fresh' = TRUE
    /\ UNCHANGED <<confFile, supVars, logVars>>

NextConfig ==
    \/ EnvCreateConf
    \/ \E l \in ConfLines : EnvAppendLine(l)
    \/ EnvRemoveConf
    \/ LoadConfigCall

InitConfig == Init /\ pidFile = NoFile

SpecConfig == InitConfig /\ [][NextConfig]_vars

\* settings a process may hold before it calls LoadConfig: config.Conf is an
\* exported variable, so any values inside the declared ranges
PriorSettings ==
    [MaxLogFileSize : {1, 100, 1000}, MaxLogFileBackup : {10, 100},
     MaxLogFileAge : {1, 90}, CompBakLogFile : BOOLEAN]

InitReload ==
    /\ proc = [p \in Pids |-> FreeProc]
    /\ pidFile = NoFile
    /\ writer = 0
    /\ writerGone = FALSE
    /\ launched = 0
    /\ raced = FALSE
    /\ misread = FALSE
    /\ Conf \in PriorSettings
    /\ confFile = NoFile
    /\ loadErr = "nil"
    /\ fresh = FALSE
    /\ reloads = 0
    /\ Log = NilLogger
    /\ logFiles = EmptyLogFiles
    /\ issued = <<>>
    /\ caller = NoCaller
    /\ tag = NoTag

\* LoadConfig called again and again, from any prior settings
SpecReload == InitReload /\ [][NextConfig]_vars

---------------------------------------------------------------------------
(* Logger specifications: the caller encoders, and the logger's methods *)

\* strings of at most n characters over the alphabet a
Strings(a, n) == UNION {[1..k -> a] : k \in 0..n}

\* callers handed to the encoders: paths with and without "/", functions
\* with and without ".", defined or not
Callers ==
    [Defined : BOOLEAN,
     File : Strings({"/", "f", "."}, MaxName),
     Line : {0, 42},
     Function : Strings({".", "F"}, MaxName - 1)]

\* zap fills in another caller
PickCaller(c) ==
    /\ caller' = c
    /\ tag' = NoTag
    /\ UNCHANGED <<Log, logFiles, issued, supVars, cfgVars>>

\* both encoders made by wrapShortCallerEncoder are applied to caller
EncodeCaller ==
    /\ ~tag.done
    /\ tag' = [console |-> wrapShortCallerEncoder(TRUE, caller),
               json |-> wrapShortCallerEncoder(FALSE, caller),
               done |-> TRUE]
    /\ UNCHANGED <<Log, logFiles, issued, caller, supVars, cfgVars>>

NextCaller ==
    \/ \E c \in Callers : PickCaller(c)
    \/ EncodeCaller

SpecCaller == InitConfig /\ [][NextCaller]_vars

\* callers zap finds for a log call (zap.AddCaller, zap.AddCallerSkip(1))
LogCallers ==
    {c \in Callers : /\ c.Defined /\ c.Line = 42
                     /\ c.File \in {<<"/", "f">>, <<"f">>}
                     /\ c.Function = <<".", "F">>}

Levels == {DebugLevel, InfoLevel, WarnLevel, ErrorLevel}

\* logger.Log.InitializeLogger()
InitializeLoggerCall ==
    /\ Log.zapLogger = "nil" /\ ~Log.panicked
    /\ Log' = InitializeLogger(Log, Conf)
    /\ UNCHANGED <<logFiles, issued, caller, tag, supVars, cfgVars>>

\* logger.Log.LogDebug / LogInfo / LogWarn / LogError
LogCall(l, c) ==
    /\ ~Log.panicked /\ Len(issued) < MaxLogs
    /\ LET r == LogWrite(Log, logFiles, l, c)
       IN  /\ Log' = r.log
           /\ logFiles' = r.files
    /\ issued' = IF Log.zapLogger = "nil" THEN issued
                 ELSE Append(issued, [level |-> l, caller |-> c])
    /\ UNCHANGED <<caller, tag, supVars, cfgVars>>

\* logger.Log.FinalizeLogger()
FinalizeLoggerCall ==
    /\ ~Log.panicked /\ Len(Log.finalized) < 3 * MaxFinalize
    /\ Log' = FinalizeLogger(Log)
    /\ UNCHANGED <<logFiles, issued, caller, tag, supVars, cfgVars>>

NextLogger ==
    \/ InitializeLoggerCall
    \/ \E l \in Levels, c \in LogCallers : LogCall(l, c)
    \/ FinalizeLoggerCall

SpecLogger == InitConfig /\ [][NextLogger]_vars

---------------------------------------------------------------------------
(* Properties of the logger *)

HasChar(s, ch) == \E i \in 1..Len(s) : s[i] = ch

\* the text of s after its last ch
AfterLast(s, ch) ==
    LET last == CHOOSE i \in 1..Len(s) :
                    s[i] = ch /\ \A j \in (i + 1)..Len(s) : s[j] # ch
    IN  [k \in 1..(Len(s) - last) |-> s[last + k]]

\* the tag the claim describes for caller c
ExpectedTag(c) ==
    IF ~c.Defined THEN Undefined
    ELSE IF HasChar(c.File, "/") /\ HasChar(c.Function, ".")
    THEN AfterLast(c.File, "/") \o <<":">> \o Itoa(c.Line) \o <<"-">>
         \o AfterLast(c.Function, ".") \o <<"(", ")">>
    ELSE c.File \o <<":">> \o Itoa(c.Line) \o <<"-">> \o c.Function \o <<"(", ")">>

\* C13: for every caller the JSON encoder appends the tag described
\* ("undefined"; short file, line and short function; or the full location
\* and full function), the console encoder appends that tag inside square
\* brackets, and the tag is never empty.
C13_CallerTag ==
    tag.done =>
        /\ tag.json = ExpectedTag(caller)
        /\ tag.console = <<"[">> \o ExpectedTag(caller) \o <<"]">>
        /\ tag.json # <<>>

\* C13 witness: a caller whose file has two "/" and whose function has a "."
\* has been encoded to the short form.
C13_Witness ==
    /\ tag.done /\ caller.Defined
    /\ caller.File = <<"/", "/", "f">> /\ caller.Function = <<".", "F">>
    /\ caller.Line = 42
    /\ tag.json = <<"f", ":", "4", "2", "-", "F", "(", ")">>

\* C14 as stated: once InitializeLogger has run, every call of LogInfo,
\* LogWarn, LogError or LogDebug has put exactly one record into the console
\* sink and exactly one into the JSON sink.
C14_EveryCallInBothSinks ==
    Log.zapLogger # "nil" =>
        /\ Len(logFiles.console) = Len(issued)
        /\ Len(logFiles.json) = Len(issued)

---------------------------------------------------------------------------
(* Properties of the configuration store *)

\* the value the file gives key: the second token of the last line that is
\* not empty, not a comment, has exactly two tokens and has key as the first
MatchingLines(file, key) ==
    {i \in 1..Len(file.data) :
        LET line == TrimSpace(file.data[i])
        IN  /\ Len(line) > 0 /\ line[1] # "#"
            /\ Len(Fields(line)) = 2
            /\ Fields(line)[1] = key}

HasValue(file, key) == file.exists /\ MatchingLines(file, key) # {}

EffectiveValue(file, key) ==
    LET last == CHOOSE i \in MatchingLines(file, key) :
                    \A j \in MatchingLines(file, key) : j <= i
    IN  Fields(file.data[last])[2]

\* a decimal integer inside [lo, hi]
InRange(tok, lo, hi) ==
    /\ ~Atoi(tok).err
    /\ Atoi(tok).value >= lo /\ Atoi(tok).value <= hi

Loaded == fresh /\ loadErr = "nil"

\* C7: after LoadConfig, each of the three numeric settings whose effective
\* value in the file is a decimal integer inside its range equals that integer.
C7_InRangeValuesApplied ==
    Loaded =>
        /\ (HasValue(confFile, KeySize) /\ InRange(EffectiveValue(confFile, KeySize), 1, 1000))
              => Conf.MaxLogFileSize = Atoi(EffectiveValue(confFile, KeySize)).value
        /\ (HasValue(confFile, KeyBackup) /\ InRange(EffectiveValue(confFile, KeyBackup), 1, 100))
              => Conf.MaxLogFileBackup = Atoi(EffectiveValue(confFile, KeyBackup)).value
        /\ (HasValue(confFile, KeyAge) /\ InRange(EffectiveValue(confFile, KeyAge), 1, 365))
              => Conf.MaxLogFileAge = Atoi(EffectiveValue(confFile, KeyAge)).value

\* C8: after any sequence of LoadConfig calls the three numeric settings are
\* inside their ranges; a value that is not numeric or is out of range leaves
\* the setting at its default, and LoadConfig reports no error for the
\* contents of a file it could read.
C8_SettingsWithinBounds ==
    /\ Conf.MaxLogFileSize \in 1..1000
    /\ Conf.MaxLogFileBackup \in 1..100
    /\ Conf.MaxLogFileAge \in 1..365
    /\ Loaded =>
          /\ (HasValue(confFile, KeySize) /\ ~InRange(EffectiveValue(confFile, KeySize), 1, 1000))
                => Conf.MaxLogFileSize = DefaultConf.MaxLogFileSize
          /\ (HasValue(confFile, KeyBackup) /\ ~InRange(EffectiveValue(confFile, KeyBackup), 1, 100))
                => Conf.MaxLogFileBackup = DefaultConf.MaxLogFileBackup
          /\ (HasValue(confFile, KeyAge) /\ ~InRange(EffectiveValue(confFile, KeyAge), 1, 365))
                => Conf.MaxLogFileAge = DefaultConf.MaxLogFileAge
    /\ (fresh /\ loadErr # "nil") => (~confFile.exists \/ loadErr = "read")

\* C8 witness: a file whose last MaxLogFileSize value is 1001 and whose
\* MaxLogFileAge value is not a number has been loaded without error.
C8_Witness ==
    /\ Loaded
    /\ HasValue(confFile, KeySize)
    /\ EffectiveValue(confFile, KeySize) = <<"1", "0", "0", "1">>
    /\ HasValue(confFile, KeyAge)
    /\ EffectiveValue(confFile, KeyAge) = <<"5", "x">>
    /\ Conf.MaxLogFileSize = 100 /\ Conf.MaxLogFileAge = 90

\* the file's effective CompressBackupLogFile value is "no", in any letter case
SaysNo(file) ==
    /\ HasValue(file, KeyCompress)
    /\ ToLower(EffectiveValue(file, KeyCompress)) = <<"n", "o">>

\* C11 as stated: after a LoadConfig call that returned nil, whatever calls
\* came before it in the process, CompBakLogFile is FALSE if the file's
\* effective CompressBackupLogFile value is "no" and TRUE if the key is absent
\* or has any other value.
C11_CompressFollowsFile ==
    Loaded => (Conf.CompBakLogFile = ~SaysNo(confFile))

\* C12: a LoadConfig call on a file that has not changed since an earlier
\* call returned nil leaves all four settings as that earlier call left them.
C12_ReloadIdempotent ==
    [][(fresh /\ reloads >= 1 /\ fresh') => Conf' = Conf]_vars

\* C12 witness: a file that switches compression off and names a numeric
\* setting has been loaded twice in a row without a change in between.
C12_Witness ==
    /\ Loaded /\ reloads = MaxReloads
    /\ SaysNo(confFile)
    /\ HasValue(confFile, KeySize)
    /\ ~Conf.CompBakLogFile

---------------------------------------------------------------------------
(* Properties of the supervisor *)

\* isRunning of process p has probed the recorded PID; aliveAtProbe tells
\* whether a live process held that PID at that moment
Probed(p) == proc[p].probed \in {"live", "dead"}

\* isRunning of process p met no live record: no file, an unreadable file,
\* contents that are no decimal integer, or a PID that no live process held
NoLiveRecord(p) ==
    \/ proc[p].probed \in {"nofile", "ioerror", "atoi"}
    \/ Probed(p) /\ ~proc[p].aliveAtProbe

LiveRecord(p) == Probed(p) /\ proc[p].aliveAtProbe

Success == [status |-> ExitCodeSuccess, err |-> "nil"]
Failure == [status |-> ExitCodeFailure, err |-> "error"]

\* a daemon past the PID-file write that blocks, or is about to block, on sigChan
Running(p) ==
    /\ proc[p].kind = "start"
    /\ proc[p].pc \in {"setupSignal", "initialization", "logStart", "wait"}

RunningSet == {p \in Pids : Running(p)}

\* C1 as stated: in every reachable state at most one daemon is Running,
\* whatever the interleaving of the Start invocations.
C1_SingleInstanceAlways == Cardinality(RunningSet) <= 1

\* C1 amended: at most one daemon is Running as long as no Start has read
\* the PID file while another Start process was between its own read of the
\* PID file and its PID-file write, and no Start has failed to read an
\* existing PID file.
C1_SingleInstanceUnlessRaced ==
    (~raced /\ ~misread) => Cardinality(RunningSet) <= 1

\* C1 witness: without any race, one daemon is Running and a second Start has
\* returned because it found that daemon alive.
C1_Witness ==
    /\ ~raced /\ ~misread
    /\ \E d \in Pids, p \in Pids :
          /\ Running(d)
          /\ proc[p].kind = "start" /\ proc[p].pc = "returned"
          /\ LiveRecord(p) /\ proc[p].pid = d

\* C2: a Start that read a PID from the PID file and probed it while a live
\* process held it returns (Success, nil) and has written no PID file,
\* spawned no child, registered no signal handler and not initialized the
\* logger.
C2_StartNoOpWhenLive ==
    \A p \in Pids :
        (proc[p].kind = "start" /\ LiveRecord(p)) =>
            /\ proc[p].pc = "returned"
            /\ proc[p].ret = Success
            /\ ~proc[p].wrote
            /\ proc[p].spawned = 0
            /\ ~proc[p].registered
            /\ proc[p].logger = "none"

\* C2 witness: a Start returned as a no-op while the recorded daemon is alive.
C2_Witness ==
    \E p \in Pids :
        /\ proc[p].kind = "start" /\ LiveRecord(p)
        /\ proc[p].pc = "returned"
        /\ writer = proc[p].pid /\ ~writerGone /\ Running(writer)

\* C3: a Stop that met no live record (PID file missing, unreadable, not a
\* decimal integer, or recording a PID that no live process held when probed)
\* returns (Success, nil) and has sent no signal.
C3_StopNoSignalWhenNotLive ==
    \A p \in Pids :
        (proc[p].kind = "stop" /\ NoLiveRecord(p)) =>
            /\ proc[p].pc = "returned"
            /\ proc[p].ret = Success
            /\ proc[p].sent = <<>>
            /\ proc[p].delivered = 0

\* C3 witness: a Stop returned after reading the PID of a terminated daemon.
C3_Witness ==
    \E p \in Pids :
        /\ proc[p].kind = "stop" /\ Probed(p) /\ ~proc[p].aliveAtProbe
        /\ proc[p].readStale
        /\ proc[p].pc = "returned"

\* C4: a Stop that read a PID from the PID file and probed it while a live
\* process held it sends exactly one SIGTERM, to the recorded PID; it returns
\* Success when the signal was delivered and Failure (1, not Fatal) when the
\* process was gone by then.
C4_StopSignalsRecordedPid ==
    \A p \in Pids :
        (proc[p].kind = "stop" /\ LiveRecord(p)) =>
            /\ proc[p].pc \in {"send", "returned"}
            /\ proc[p].pc = "send" => proc[p].sent = <<>>
            /\ proc[p].pc = "returned" =>
                  /\ proc[p].sent = <<proc[p].pid>>
                  /\ proc[p].pid \in Pids
                  /\ \/ proc[p].delivered = 1 /\ proc[p].ret = Success
                     \/ proc[p].delivered = 0 /\ proc[p].ret = Failure

\* C4 witness: the recorded process exited between the probe and the send,
\* and Stop returned Failure after one attempt.
C4_Witness ==
    \E p \in Pids :
        /\ proc[p].kind = "stop" /\ LiveRecord(p)
        /\ proc[p].pc = "returned" /\ proc[p].ret = Failure
        /\ Len(proc[p].sent) = 1

C6_PersistedNeverKilled ==
    \A p \in Pids :
        (proc[p].kind = "start" /\ proc[p].wrote) => proc[p].killedBy = 0

\* C6 amended: a daemon that has registered its signal channel is never
\* terminated by SIGINT or SIGTERM; once it has taken such a signal from the
\* channel it logs the signal, finalizes the logger and returns (Success, nil).
C6_RegisteredShutsDownGracefully ==
    \A p \in Pids :
        proc[p].kind = "start" =>
            /\ proc[p].registered => proc[p].killedBy = 0
            /\ proc[p].got # 0 =>
                  /\ proc[p].got \in {SIGINT, SIGTERM}
                  /\ proc[p].pc \in {"logSig", "finalization", "returned"}
                  /\ proc[p].pc \in {"finalization", "returned"} =>
                        proc[p].logs = <<"Start", "Received">>
                  /\ proc[p].pc = "returned" =>
                        proc[p].logger = "closed" /\ proc[p].ret = Success

\* C6 witness: a daemon received SIGTERM, logged it, finalized and returned.
C6_Witness ==
    \E p \in Pids :
        /\ proc[p].kind = "start" /\ proc[p].got = SIGTERM
        /\ proc[p].pc = "returned" /\ proc[p].logger = "closed"

\* C9: when DaemonizeProcess or WriteDataToTextFile returns an error, Start
\* returns the Fatal outcome (code 2).
C9_FatalOnDaemonizeOrPersistFailure ==
    \A p \in Pids :
        (proc[p].kind = "start" /\ proc[p].pc = "returned"
         /\ proc[p].failed \in {"daemonize", "write"}) =>
            proc[p].ret.status = ExitCodeFatal

\* C10: the exit status the dispatcher sets equals the status code that
\* Start or Stop returned.
C10_ExitStatusIsReturnedStatus ==
    \A p \in Pids :
        (proc[p].kind \in {"start", "stop"} /\ proc[p].exitBy = "dispatch") =>
            /\ proc[p].exit = proc[p].ret.status
            /\ proc[p].ret.status = ExitCodeSuccess <=> proc[p].ret.err = "nil"

\* C10 witness: a process whose operation returned Failure has exited.
C10_Witness ==
    \E p \in Pids :
        /\ proc[p].exitBy = "dispatch"
        /\ proc[p].ret = Failure /\ proc[p].exit = ExitCodeFailure


\* C15: a Start that took a registered signal from its channel, with the
\* logger initialized, runs FinalizeLogger exactly once: not before the
\* "Received" line is logged, and before it returns (Success, nil);
\* FinalizeLogger syncs, then closes the console file, then the JSON file,
\* and both files are closed when it is done.
C15_FinalizeOnceOnSignal ==
    \A p \in Pids :
        (proc[p].kind = "start" /\ proc[p].got # 0) =>
            /\ proc[p].pc \in {"logSig", "finalization", "returned"}
            /\ proc[p].pc = "logSig" =>
                  /\ proc[p].logs = <<"Start">>
                  /\ proc[p].log.finalized = <<>>
            /\ proc[p].pc = "finalization" =>
                  /\ proc[p].logs = <<"Start", "Received">>
                  /\ proc[p].log.finalized = <<>>
            /\ proc[p].pc = "returned" =>
                  /\ proc[p].logs = <<"Start", "Received">>
                  /\ proc[p].log.finalized = <<"Sync", "CloseConsole", "CloseJson">>
                  /\ proc[p].log.consoleFileLogger = "idle"
                  /\ proc[p].log.jsonFileLogger = "idle"
                  /\ ~proc[p].log.panicked
                  /\ proc[p].ret = Success

\* C15 witness: a daemon that received SIGINT has finalized and returned.
C15_Witness ==
    \E p \in Pids :
        /\ proc[p].kind = "start" /\ proc[p].got = SIGINT
        /\ proc[p].pc = "returned"
        /\ proc[p].log.finalized = <<"Sync", "CloseConsole", "CloseJson">>


\* the live processes of the one start invocation of SpecDaemonize
ChainAlive == {p \in DOMAIN proc : proc[p].kind = "start" /\ Alive(proc, p)}

\* C16 as stated: an invocation started from a shell spawns one child and
\* exits with status 0, the child does not spawn again, and never more than
\* two processes of the invocation exist.
C16_OneReexec ==
    /\ Cardinality(ChainAlive) <= 2
    /\ \A p \in DOMAIN proc :
          /\ proc[p].spawned <= 1
          /\ (proc[p].kind = "start" /\ proc[p].ppid \in ChainPids) => proc[p].spawned = 0
          /\ proc[p].exitBy = "osexit" => proc[p].exit = 0


\* a step in which the contents of the PID file change
PidFileStep == pidFile' # pidFile

\* C17: the PID file is only ever changed by a start process that is a child
\* of init (never by a parent that spawns and exits), that has not written
\* it before, and that has neither registered its signal channel nor
\* initialized the logger; what it writes is its own PID; a process whose
\* write failed returns Failure without registering, and every process that
\* registers has written.
C17_OnlyDaemonWritesPidFile ==
    /\ [][PidFileStep =>
            \E p \in Pids :
                /\ proc[p].kind = "start"
                /\ proc[p].pc \in {"openpid", "writepid"}
                /\ proc'[p].pc # proc[p].pc
                /\ proc[p].ppid = InitPid /\ proc[p].spawned = 0
                /\ ~proc[p].wrote /\ ~proc[p].registered
                /\ proc[p].logger = "none"
                /\ proc'[p].wrote => (proc'[p].runPid = p /\ writer' = p)]_vars
    /\ [](\A p \in Pids :
            /\ proc[p].wrote => (proc[p].spawned = 0 /\ proc[p].exitBy # "osexit")
            /\ proc[p].registered => proc[p].wrote
            /\ Running(p) => proc[p].wrote
            /\ proc[p].failed = "write" =>
                  /\ proc[p].pc = "returned" /\ proc[p].ret = Failure
                  /\ ~proc[p].wrote /\ ~proc[p].registered)
    /\ []((writer \in Pids /\ ~raced) => pidFile = File(Itoa(writer)))

\* C17 witness: a parent has spawned a child and exited with status 0, and
\* the child is Running with its own PID in the PID file.
C17_Witness ==
    \E p \in Pids, d \in Pids :
        /\ proc[p].exitBy = "osexit" /\ ~proc[p].wrote
        /\ Running(d) /\ proc[d].wrote /\ proc[d].registered
        /\ writer = d /\ pidFile = File(Itoa(d))


\* a daemon that has registered sigChan and has not reached, or is blocked
\* in, the receive
BeforeReceive(p) ==
    /\ proc[p].kind = "start" /\ proc[p].registered
    /\ proc[p].pc \in {"initialization", "logStart", "wait"}

GracefullyDown(p) ==
    /\ proc[p].kind = "start" /\ proc[p].pc = "returned"
    /\ proc[p].got \in NotifiedSignals
    /\ proc[p].logs = <<"Start", "Received">>
    /\ proc[p].logger = "closed"
    /\ proc[p].ret = Success

\* C18: a SIGTERM or SIGINT delivered to a daemon after setupSignal and
\* before it blocks in the receive stays in the one-slot channel, and the
\* daemon then goes on to the receive, logs the signal, finalizes and
\* returns (Success, nil).
C18_NoLostSignal ==
    /\ [](\A p \in ChainPids :
            (BeforeReceive(p) /\ proc[p].notified) => Len(proc[p].sigChan) = 1)
    /\ \A p \in ChainPids :
          (BeforeReceive(p) /\ proc[p].notified) ~> GracefullyDown(p)

\* C18 witness: a signal sits in the channel of a daemon that has not yet
\* initialized its logger.
C18_Witness ==
    \E p \in ChainPids :
        /\ BeforeReceive(p) /\ proc[p].pc = "initialization"
        /\ proc[p].notified /\ proc[p].sigChan = <<SIGTERM>>


\* C19: a Start or Stop that was given a nil command, or whose change of
\* working directory failed, has returned (Failure, error) and has read no
\* PID file, probed nothing, spawned nothing, written no PID file, registered
\* no signal channel, opened no logger and sent no signal.
C19_EarlyFailureNoEffects ==
    \A p \in Pids :
        proc[p].failed \in {"nilcmd", "chdir"} =>
            /\ proc[p].pc = "returned" /\ proc[p].ret = Failure
            /\ proc[p].probed = "no" /\ proc[p].pid = 0
            /\ proc[p].spawned = 0
            /\ ~proc[p].wrote /\ proc[p].runPid = 0
            /\ ~proc[p].registered /\ proc[p].logger = "none"
            /\ proc[p].sent = <<>> /\ proc[p].delivered = 0

\* C19 witness: a Start whose change of directory failed and a Stop with a
\* nil command have both returned.
C19_Witness ==
    \E p \in Pids, q \in Pids :
        /\ proc[p].kind = "start" /\ proc[p].failed = "chdir" /\ proc[p].pc = "returned"
        /\ proc[q].kind = "stop" /\ proc[q].failed = "nilcmd" /\ proc[q].pc = "returned"

\* process p of weblin ends in this step without having been killed
SelfExit(p) ==
    /\ proc[p].kind \in {"start", "stop"}
    /\ proc[p].pc # "exited" /\ proc'[p].pc = "exited"
    /\ proc'[p].exitBy \notin {"signal", "kill"}

\* C20 as stated: a weblin process only ends itself in the dispatcher, after
\* StartServer or StopServer has returned to it; no step of Start or Stop or
\* of their helpers ends the process.
C20_ExitOnlyInDispatcher ==
    [][\A p \in Pids : SelfExit(p) => proc[p].pc = "returned"]_vars

\* C20 amended: a weblin process ends itself either in the dispatcher, after
\* StartServer or StopServer has returned, or in DaemonizeProcess, where the
\* parent that has just spawned its child calls os.Exit(0); nowhere else.
C20_ExitInDispatcherOrDaemonize ==
    [][\A p \in Pids :
          SelfExit(p) =>
              \/ proc[p].pc = "returned"
                 /\ proc'[p].exit = Execute(wrapCommandFuncForCobra(proc[p].ret.status,
                                                                    proc[p].ret.err))
              \/ /\ proc[p].kind = "start" /\ proc[p].pc = "exit0"
                 /\ proc[p].spawned = 1 /\ ~proc[p].wrote /\ ~proc[p].registered
                 /\ proc'[p].exit = 0]_vars

\* C20 witness: one process has ended in DaemonizeProcess and another in the
\* dispatcher.
C20_Witness ==
    \E p \in Pids, q \in Pids :
        /\ proc[p].kind = "start" /\ proc[p].pc = "exited" /\ proc[p].exitBy = "osexit"
        /\ proc[q].pc = "exited" /\ proc[q].exitBy = "dispatch"

\* the daemon p has been through initialization()
Initialized(p) ==
    /\ proc[p].kind = "start"
    /\ proc[p].pc \in {"logStart", "wait", "logSig", "finalization", "returned"}
    /\ proc[p].wrote /\ proc[p].registered

\* C21: when conf/weblin.properties cannot be opened or read, LoadConfig
\* reports an error and the four settings stay as they were (the defaults of
\* the package init); Start ignores the error: the logger is built with those
\* settings and the daemon goes on, Running, to log its start and block in
\* the receive: no step takes it from initialization() to a return or an exit.
C21_UnreadableConfigRecoverable ==
    /\ [](\A p \in ChainPids :
            Initialized(p) =>
                /\ ~confFile.exists => proc[p].loaded = "open"
                /\ confFile.exists => proc[p].loaded \in {"nil", "read"}
                /\ proc[p].loaded # "nil" =>
                      /\ proc[p].conf = DefaultConf
                      /\ proc[p].log.zapLogger = "tee"
                      /\ ~proc[p].log.panicked
                      /\ proc[p].log.lumber = newLumberJackLogger(DefaultConf))
    /\ [][\A p \in ChainPids :
            (proc[p].kind = "start" /\ proc[p].pc = "initialization"
                /\ proc'[p].pc # "initialization")
                => /\ proc'[p].kind = "start" /\ proc'[p].pc = "logStart"
                   /\ proc'[p].logger = "open" /\ proc'[p].loaded # "no"]_vars
    /\ [][\A p \in ChainPids :
            (proc[p].kind = "start" /\ proc[p].pc = "logStart"
                /\ proc'[p].pc # "logStart")
                => /\ proc'[p].kind = "start" /\ proc'[p].pc = "wait"
                   /\ proc'[p].logs = <<"Start">>]_vars

\* C21 witness: the file exists but reading it failed, and the daemon blocks
\* in the receive with its logger built from the default settings.
C21_Witness ==
    \E p \in ChainPids :
        /\ confFile.exists /\ proc[p].loaded = "read"
        /\ proc[p].pc = "wait" /\ proc[p].logger = "open"
        /\ proc[p].log.lumber.Compress


\* C22 as stated: the process that Stop's SIGTERM is delivered to is a weblin
\* daemon, a process that wrote its own PID to the PID file, and a Start
\* reports already-running only when the recorded PID was held by such a
\* daemon at the probe, also after a terminated daemon's PID was reassigned.
C22_StopOnlySignalsDaemon ==
    \A p \in Pids :
        /\ (proc[p].kind = "stop" /\ proc[p].delivered > 0) => proc[p].hit = "daemon"
        /\ (proc[p].kind = "start" /\ Probed(p) /\ proc[p].found) =>
               proc[p].holder = "daemon"


\* process p makes a Log* call in this step
LogsInStep(p) ==
    /\ proc[p].kind \in {"start", "stop"} /\ proc'[p].kind = proc[p].kind
    /\ proc'[p].pc # "exited"
    /\ Len(proc'[p].logs) > Len(proc[p].logs)

\* process p runs FinalizeLogger in this step
FinalizesInStep(p) ==
    /\ proc[p].kind \in {"start", "stop"} /\ proc'[p].kind = proc[p].kind
    /\ proc'[p].pc # "exited"
    /\ \/ proc'[p].log.finalized # proc[p].log.finalized
       \/ proc'[p].logger = "closed" /\ proc[p].logger # "closed"

\* C23: every Log* call of a Start or Stop is made on a logger that
\* InitializeLogger has built and FinalizeLogger has not yet closed, and
\* FinalizeLogger runs once, on a built logger: no nil logger is dereferenced,
\* a Stop and a Start that returns early (nil command, chdir failure,
\* already-running, daemonize or PID-file failure) leave the logger untouched.
C23_LoggerUsedOnlyWhileInitialized ==
    /\ [](\A p \in Pids :
            /\ ~proc[p].log.panicked
            /\ proc[p].logs # <<>> => proc[p].log.zapLogger = "tee"
            /\ proc[p].log.finalized # <<>> =>
                  /\ proc[p].log.zapLogger = "tee"
                  /\ proc[p].log.finalized = <<"Sync", "CloseConsole", "CloseJson">>
            /\ (proc[p].kind = "stop"
                   \/ (proc[p].kind = "start" /\ proc[p].pc = "returned"
                          /\ (proc[p].found \/ proc[p].failed # "none"))) =>
                  /\ proc[p].log = NilLogger
                  /\ proc[p].logger = "none"
                  /\ proc[p].logs = <<>>)
    /\ [][\A p \in Pids :
            /\ LogsInStep(p) =>
                  /\ proc[p].log.zapLogger = "tee"
                  /\ proc[p].log.finalized = <<>>
                  /\ proc[p].logger = "open"
            /\ FinalizesInStep(p) =>
                  /\ proc[p].log.zapLogger = "tee"
                  /\ proc[p].log.finalized = <<>>
                  /\ proc[p].logger = "open"]_vars

\* C23 witness: a daemon has logged its start and the signal on its built
\* logger and then finalized it, while a Stop has returned after delivering
\* its signal without touching a logger.
C23_Witness ==
    \E p, q \in Pids :
        /\ proc[p].kind = "start" /\ proc[p].pc = "returned"
        /\ proc[p].logs = <<"Start", "Received">>
        /\ proc[p].log.zapLogger = "tee" /\ proc[p].logger = "closed"
        /\ proc[q].kind = "stop" /\ proc[q].pc = "returned"
        /\ proc[q].delivered = 1 /\ proc[q].log = NilLogger


===========================================================================
